---- MODULE Spec2Model ----
(***************************************************************************)
(* Model of main.py: the BibTeX title cleaner.  A string is a sequence of  *)
(* one-character strings.  The three passes (entity protection, acronym    *)
(* protection, sentence casing), the brace splitter they share, the        *)
(* pipeline process_title and the record rewriter clean_file are operators *)
(* computed the way the Python code computes them; the spaCy model is the  *)
(* only nondeterministic part: each call nlp(text) answers with some list  *)
(* of entities (start_char, end_char, label_) over text.                   *)
(***************************************************************************)
EXTENDS Integers, Sequences, FiniteSets, TLC

VARIABLES
    raw,      \* process_title: the argument raw
    docs,     \* the answers of nlp, one list of entities per part of raw
    step1,    \* process_title: after brace_entities_preserve_existing
    step2,    \* process_title: after protect_acronyms_preserve_braces
    step3,    \* process_title: after sentence_case_preserve_braces
    changed,  \* process_title: step3 != raw
    calls,    \* how many times the returned title was fed to process_title again
    pc,       \* which operation ran last
    text,     \* the argument of a single pass / the document of clean_file
    out,      \* the value a single pass or clean_file returned
    mlist,    \* brace_entities: the list merged
    passed,   \* clean_file: the contents handed to process_title, in order
    counts    \* clean_file: <<total, changed>>

vars == <<raw, docs, step1, step2, step3, changed, calls, pc, text, out, mlist, passed, counts>>

---------------------------------------------------------------------------
(* Bounds of the model *)

MaxLen == 3

MaxEnts == 2

MaxPassLen == 4

MergeLen == 8

MaxSpans == 2

MaxFields == 2

MaxFileEnts == 1

---------------------------------------------------------------------------
(* Characters *)

UpperSeq ==
    <<"A","B","C","D","E","F","G","H","I","J","K","L","M",
      "N","O","P","Q","R","S","T","U","V","W","X","Y","Z">>

LowerSeq ==
    <<"a","b","c","d","e","f","g","h","i","j","k","l","m",
      "n","o","p","q","r","s","t","u","v","w","x","y","z">>

UpperChars == {UpperSeq[i] : i \in 1..26}

LowerChars == {LowerSeq[i] : i \in 1..26}

Digits == {"0","1","2","3","4","5","6","7","8","9"}

Letters == UpperChars \cup LowerChars

\* \s of the regular expressions
Whitespace == {" ", "\t", "\n"}

\* \w of the regular expressions
WordChars == Letters \cup Digits \cup {"_"}

LowerMap == [c \in UpperChars |-> LowerSeq[CHOOSE i \in 1..26 : UpperSeq[i] = c]]

UpperMap == [c \in LowerChars |-> UpperSeq[CHOOSE i \in 1..26 : LowerSeq[i] = c]]

\* str.lower() on one character
lower(c) == IF c \in UpperChars THEN LowerMap[c] ELSE c

\* str.upper() on one character
upper(c) == IF c \in LowerChars THEN UpperMap[c] ELSE c

LowerStr(s) == [i \in 1..Len(s) |-> lower(s[i])]

\* s[a:b] of Python: 0-based, half-open, clipped to the string
Slice(s, a, b) == SubSeq(s, a + 1, IF b < Len(s) THEN b ELSE Len(s))

RECURSIVE Join(_)
\* "".join(parts)
Join(parts) == IF parts = <<>> THEN <<>> ELSE Head(parts) \o Join(Tail(parts))

---------------------------------------------------------------------------
(* split_braces: re.split(r"(\{.*?\})", text, flags=re.DOTALL) *)

\* the least index >= from whose character is c, or 0
RECURSIVE Find(_, _, _)
Find(s, c, from) ==
    IF from > Len(s) THEN 0
    ELSE IF s[from] = c THEN from
    ELSE Find(s, c, from + 1)

RECURSIVE split_braces(_)
split_braces(s) ==
    LET i == Find(s, "{", 1)
        j == IF i = 0 THEN 0 ELSE Find(s, "}", i + 1)
    IN  IF j = 0 THEN <<s>>
        ELSE <<SubSeq(s, 1, i - 1), SubSeq(s, i, j)>>
                 \o split_braces(SubSeq(s, j + 1, Len(s)))

\* p.startswith("{") and p.endswith("}")
IsBraced(p) == Len(p) > 0 /\ p[1] = "{" /\ p[Len(p)] = "}"

---------------------------------------------------------------------------
(* brace_entities and brace_entities_preserve_existing *)

ENTITY_LABELS ==
    {"PERSON", "GPE", "LOC", "ORG", "NORP", "WORK_OF_ART", "EVENT", "PRODUCT"}

\* the list comprehension of brace_entities: (start_char, end_char) of every
\* entity whose label is recognised, in the order of doc.ents
RECURSIVE RecognizedSpans(_)
RecognizedSpans(doc) ==
    IF doc = <<>> THEN <<>>
    ELSE (IF Head(doc).label_ \in ENTITY_LABELS
              THEN << <<Head(doc).start_char, Head(doc).end_char>> >>
              ELSE <<>>)
         \o RecognizedSpans(Tail(doc))

\* the order of Python tuples
SpanLess(x, y) == x[1] < y[1] \/ (x[1] = y[1] /\ x[2] < y[2])

RECURSIVE InsertSpan(_, _)
InsertSpan(x, sorted) ==
    IF sorted = <<>> THEN <<x>>
    ELSE IF SpanLess(Head(sorted), x)
         THEN <<Head(sorted)>> \o InsertSpan(x, Tail(sorted))
         ELSE <<x>> \o sorted

\* spans.sort()
RECURSIVE SortSpans(_)
SortSpans(spans) ==
    IF spans = <<>> THEN <<>> ELSE InsertSpan(Head(spans), SortSpans(Tail(spans)))

Max(a, b) == IF a > b THEN a ELSE b

\* MergeStep with "a >= merged[-1][1]" for "a > merged[-1][1]": spans that
\* touch are kept apart
MergeStep_Strict(merged, span) ==
    IF merged = <<>> \/ span[1] >= merged[Len(merged)][2]
    THEN Append(merged, span)
    ELSE [merged EXCEPT ![Len(merged)] =
              <<merged[Len(merged)][1], Max(merged[Len(merged)][2], span[2])>>]

\* one turn of the loop "for a, b in spans" that builds merged
MergeStep(merged, span) ==
    IF merged = <<>> \/ span[1] > merged[Len(merged)][2]
    THEN Append(merged, span)
    ELSE [merged EXCEPT ![Len(merged)] =
              <<merged[Len(merged)][1], Max(merged[Len(merged)][2], span[2])>>]

RECURSIVE MergeLoop(_, _)
MergeLoop(spans, merged) ==
    IF spans = <<>> THEN merged
    ELSE MergeLoop(Tail(spans), MergeStep(merged, Head(spans)))

\* merged, as brace_entities builds it from the answer of nlp
MergeSpans(doc) == MergeLoop(SortSpans(RecognizedSpans(doc)), <<>>)

\* the loop "for a, b in merged" and the final out.append(text[last:])
RECURSIVE WrapLoop(_, _, _)
WrapLoop(s, merged, last) ==
    IF merged = <<>> THEN Slice(s, last, Len(s))
    ELSE Slice(s, last, Head(merged)[1])
             \o <<"{">> \o Slice(s, Head(merged)[1], Head(merged)[2]) \o <<"}">>
             \o WrapLoop(s, Tail(merged), Head(merged)[2])

\* brace_entities(nlp, text), doc being the answer nlp(text)
brace_entities(doc, s) ==
    IF RecognizedSpans(doc) = <<>> THEN s
    ELSE WrapLoop(s, MergeSpans(doc), 0)

RECURSIVE EntityParts(_, _)
EntityParts(parts, ds) ==
    IF parts = <<>> THEN <<>>
    ELSE <<IF IsBraced(Head(parts)) THEN Head(parts)
                                    ELSE brace_entities(Head(ds), Head(parts))>>
             \o EntityParts(Tail(parts), Tail(ds))

\* brace_entities_preserve_existing(nlp, title); ds[i] is the answer of nlp
\* on part i (unused when the part is braced: nlp is not called on it)
brace_entities_preserve_existing(ds, title) ==
    Join(EntityParts(split_braces(title), ds))

---------------------------------------------------------------------------
(* protect_acronyms_preserve_braces *)

\* the length of the longest run of \w characters that starts at index i
RECURSIVE WordRun(_, _)
WordRun(s, i) ==
    IF i > Len(s) \/ s[i] \notin WordChars THEN 0 ELSE 1 + WordRun(s, i + 1)

\* IsCapsToken with [A-Z0-9]+ for [A-Z0-9]{2,}
IsCapsToken_OneOrMore(tok) ==
    Len(tok) >= 1 /\ \A k \in 1..Len(tok) : tok[k] \in UpperChars \cup Digits

\* re.fullmatch(r"[A-Z0-9]{2,}", tok)
IsCapsToken(tok) ==
    Len(tok) >= 2 /\ \A k \in 1..Len(tok) : tok[k] \in UpperChars \cup Digits

\* re.search(r"\d", tok)
HasDigit(tok) == \E k \in 1..Len(tok) : tok[k] \in Digits

\* AcronymMatches without the alternative (?=\w*\d)\w+
AcronymMatches_CapsOnly(tok) ==
    Len(tok) >= 2 /\ \A k \in 1..Len(tok) : tok[k] \in UpperChars \cup Digits

\* _ACRONYM_TOKEN_RE matches at a \b: the whole run of \w from there, when
\* it is [A-Z0-9]{2,} or holds a digit (?=\w*\d); no shorter match ends at a \b
AcronymMatches(tok) == IsCapsToken(tok) \/ HasDigit(tok)

\* repl without the closing brace
repl_Unclosed(tok) == <<"{">> \o tok

\* repl(m) of protect_acronyms_preserve_braces
repl(tok) ==
    IF IsCapsToken(tok) \/ HasDigit(tok) THEN <<"{">> \o tok \o <<"}">> ELSE tok

\* _ACRONYM_TOKEN_RE.sub(repl, p), scanning p from index i
RECURSIVE AcronymSub(_, _)
AcronymSub(p, i) ==
    IF i > Len(p) THEN <<>>
    ELSE LET n == WordRun(p, i)
             tok == SubSeq(p, i, i + n - 1)
         IN  IF n = 0 THEN <<p[i]>> \o AcronymSub(p, i + 1)
             ELSE (IF AcronymMatches(tok) THEN repl(tok) ELSE tok)
                      \o AcronymSub(p, i + n)

\* AcronymParts without the test that skips the braced parts
RECURSIVE AcronymParts_NoSkip(_)
AcronymParts_NoSkip(parts) ==
    IF parts = <<>> THEN <<>>
    ELSE <<AcronymSub(Head(parts), 1)>> \o AcronymParts_NoSkip(Tail(parts))

RECURSIVE AcronymParts(_)
AcronymParts(parts) ==
    IF parts = <<>> THEN <<>>
    ELSE <<IF IsBraced(Head(parts)) THEN Head(parts)
                                    ELSE AcronymSub(Head(parts), 1)>>
             \o AcronymParts(Tail(parts))

protect_acronyms_preserve_braces(chunk) == Join(AcronymParts(split_braces(chunk)))

---------------------------------------------------------------------------
(* sentence_case_preserve_braces *)

\* re.search(r"[a-zA-Z]", s)
HasLetter(s) == \E k \in 1..Len(s) : s[k] \in Letters

\* how many characters of [^A-Za-z0-9] s starts with, from index i
RECURSIVE NonAlnumRun(_, _)
NonAlnumRun(s, i) ==
    IF i > Len(s) \/ s[i] \in Letters \cup Digits THEN 0
    ELSE 1 + NonAlnumRun(s, i + 1)

\* re.sub(r"^([^A-Za-z0-9]*)([A-Za-z])", group(1) + group(2).upper(), s, count=1)
CapitalizeFirst(s) ==
    LET k == NonAlnumRun(s, 1) + 1
    IN  IF k <= Len(s) /\ s[k] \in Letters
        THEN [s EXCEPT ![k] = upper(s[k])]
        ELSE s

\* how many \s characters follow, from index i
RECURSIVE SpaceRun(_, _)
SpaceRun(s, i) ==
    IF i > Len(s) \/ s[i] \notin Whitespace THEN 0 ELSE 1 + SpaceRun(s, i + 1)

\* CapitalizeAfterColon with ":" for ":\s*": no white space after the colon
RECURSIVE CapitalizeAfterColon_NoSpace(_, _)
CapitalizeAfterColon_NoSpace(s, i) ==
    IF i > Len(s) THEN s
    ELSE IF s[i] = ":" /\ i + 1 <= Len(s) /\ s[i + 1] \in Letters
         THEN CapitalizeAfterColon_NoSpace([s EXCEPT ![i + 1] = upper(s[i + 1])], i + 2)
         ELSE CapitalizeAfterColon_NoSpace(s, i + 1)

\* re.sub(r"(:\s*)([A-Za-z])", group(1) + group(2).upper(), s), from index i
RECURSIVE CapitalizeAfterColon(_, _)
CapitalizeAfterColon(s, i) ==
    IF i > Len(s) THEN s
    ELSE IF s[i] = ":"
         THEN LET k == i + 1 + SpaceRun(s, i + 1)
              IN  IF k <= Len(s) /\ s[k] \in Letters
                  THEN CapitalizeAfterColon([s EXCEPT ![k] = upper(s[k])], k + 1)
                  ELSE CapitalizeAfterColon(s, i + 1)
         ELSE CapitalizeAfterColon(s, i + 1)

\* CaseParts without "is_first_part = False": a first-letter capital in
\* every part
RECURSIVE CaseParts_EveryPart(_, _)
CaseParts_EveryPart(parts, is_first_part) ==
    IF parts = <<>> THEN <<>>
    ELSE LET p == Head(parts)
             s == LowerStr(p)
             s1 == IF is_first_part /\ HasLetter(s) THEN CapitalizeFirst(s) ELSE s
         IN  IF IsBraced(p)
             THEN <<p>> \o CaseParts_EveryPart(Tail(parts), is_first_part)
             ELSE <<CapitalizeAfterColon(s1, 1)>>
                      \o CaseParts_EveryPart(Tail(parts), is_first_part)

\* the loop "for p in parts" of sentence_case_preserve_braces
RECURSIVE CaseParts(_, _)
CaseParts(parts, is_first_part) ==
    IF parts = <<>> THEN <<>>
    ELSE LET p == Head(parts)
             s == LowerStr(p)
             fires == is_first_part /\ HasLetter(s)
             s1 == IF fires THEN CapitalizeFirst(s) ELSE s
         IN  IF IsBraced(p)
             THEN <<p>> \o CaseParts(Tail(parts), is_first_part)
             ELSE <<CapitalizeAfterColon(s1, 1)>>
                      \o CaseParts(Tail(parts), is_first_part /\ ~fires)

sentence_case_preserve_braces(s) == Join(CaseParts(split_braces(s), TRUE))

---------------------------------------------------------------------------
(* process_title *)

\* the return statement of process_title: step3, (step3 != raw)
Returned(s1, s2, s3, title) == <<s1, s2, s3, s3 # title>>

Step3(s1, s2, title) == Returned(s1, s2, sentence_case_preserve_braces(s2), title)

Step2(s1, title) == Step3(s1, protect_acronyms_preserve_braces(s1), title)

\* process_title(nlp, raw), ds being the answers of nlp on the parts of raw:
\* <<step1, step2, step3, step3 != raw>>
process_title(ds, title) == Step2(brace_entities_preserve_existing(ds, title), title)

---------------------------------------------------------------------------
(* The inputs: titles, and the answers of the entity provider *)

\* one letter in both cases, a digit, the colon, a blank and the two markers
Alphabet == {"A", "a", "1", ":", " ", "{", "}"}

\* every string over S of length at most n
StringsUpTo(S, n) == UNION {[1..k -> S] : k \in 0..n}

\* "{a {A} AA}": a protected span with a protected span inside it
NestedTitle == <<"{", "a", " ", "{", "A", "}", " ", "A", "A", "}">>

\* "{AA} a": a title that begins with a protected span
BracedFirstTitle == <<"{", "A", "A", "}", " ", "a">>

\* "Aa: A {AA} a": a title in sentence case
CasedTitle == <<"A", "a", ":", " ", "A", " ", "{", "A", "A", "}", " ", "a">>

Titles == StringsUpTo(Alphabet, MaxLen) \cup {NestedTitle, BracedFirstTitle, CasedTitle}

\* the strings the single passes are run on
\* "the NASA COVID19 2nd Of"
AcronymText == <<"t", "h", "e", " ", "N", "A", "S", "A", " ", "C", "O", "V", "I", "D", "1", "9", " ", "2", "n", "d", " ", "O", "f">>

\* "'(hi {X} y: z"
QuotedText == <<"'", "(", "h", "i", " ", "{", "X", "}", " ", "y", ":", " ", "z">>

\* "1 a{A}a: a"
DigitText == <<"1", " ", "a", "{", "A", "}", "a", ":", " ", "a">>

\* the single passes also meet "_", a \w character that is no letter or digit
PassAlphabet == Alphabet \cup {"_"}

PassTexts == StringsUpTo(PassAlphabet, MaxPassLen) \cup {AcronymText, QuotedText, DigitText}

Entity(a, b, l) == [start_char |-> a, end_char |-> b, label_ |-> l]

\* the spans [a, b) of a text of n characters that start at from or later
SpansFrom(from, n) == {ab \in (from..n) \X (from..n) : ab[1] < ab[2]}

\* doc.ents of spaCy on a text of n characters: at most k entities, each with
\* 0 <= start_char < end_char <= n, in the order of the text and not
\* overlapping (the first starts at from or later), labels drawn from labels
RECURSIVE DocEnts(_, _, _, _)
DocEnts(from, n, k, labels) ==
    IF k = 0 THEN {<<>>}
    ELSE {<<>>} \cup
         UNION {{<<Entity(ab[1], ab[2], l)>> \o rest :
                     rest \in DocEnts(ab[2], n, k - 1, labels)} :
                    ab \in SpansFrom(from, n), l \in labels}

\* the label the provider gives in the pipeline runs
PipelineLabels == {"ORG"}

\* one answer of nlp per part of a split title; nlp is not called on a braced part
\* (at most k entities in each answer)
RECURSIVE AnswersPerPart(_, _)
AnswersPerPart(parts, k) ==
    IF parts = <<>> THEN {<<>>}
    ELSE LET here == IF IsBraced(Head(parts)) THEN {<<>>}
                     ELSE DocEnts(0, Len(Head(parts)), k, PipelineLabels)
         IN  {<<d>> \o rest : d \in here, rest \in AnswersPerPart(Tail(parts), k)}

---------------------------------------------------------------------------
(* The pipeline as a state machine: process_title on a title, and on the *)
(* title it returned                                                      *)

Idle ==
    /\ docs = <<>>
    /\ step1 = <<>>
    /\ step2 = <<>>
    /\ step3 = <<>>
    /\ changed = FALSE
    /\ calls = 0
    /\ pc = "ready"
    /\ out = <<>>
    /\ mlist = <<>>
    /\ passed = <<>>
    /\ counts = <<0, 0>>

Init ==
    /\ raw \in Titles
    /\ text = <<>>
    /\ Idle

\* step3, did_change = process_title(nlp, raw)
ProcessTitle ==
    /\ pc = "ready"
    /\ \E ds \in AnswersPerPart(split_braces(raw), MaxEnts) :
          \E r \in {process_title(ds, raw)} :
              /\ docs' = ds
              /\ step1' = r[1]
              /\ step2' = r[2]
              /\ step3' = r[3]
              /\ changed' = r[4]
    /\ pc' = "done"
    /\ UNCHANGED <<raw, calls, text, out, mlist, passed, counts>>

\* the answers of a provider that finds no entity in any part
RECURSIVE NoEntities(_)
NoEntities(parts) ==
    IF parts = <<>> THEN <<>> ELSE <<(<<>>)>> \o NoEntities(Tail(parts))

\* process_title(nlp, step3): the returned title is cleaned again, by a
\* provider that finds no entity in it (its detection is stable)
ProcessAgain ==
    /\ pc = "done"
    /\ calls = 0
    /\ \E r \in {process_title(NoEntities(split_braces(step3)), step3)} :
          /\ raw' = step3
          /\ docs' = NoEntities(split_braces(step3))
          /\ step1' = r[1]
          /\ step2' = r[2]
          /\ step3' = r[3]
          /\ changed' = r[4]
    /\ calls' = calls + 1
    /\ UNCHANGED <<pc, text, out, mlist, passed, counts>>

Next == ProcessTitle \/ ProcessAgain

Spec == Init /\ [][Next]_vars

---------------------------------------------------------------------------
(* The passes one at a time, on any string *)

InitPass ==
    /\ raw = <<>>
    /\ text \in PassTexts
    /\ Idle

\* parts = split_braces(text)
SplitBraces ==
    /\ pc = "ready"
    /\ out' = split_braces(text)
    /\ pc' = "split"
    /\ UNCHANGED <<raw, docs, step1, step2, step3, changed, calls, text, mlist, passed, counts>>

\* protect_acronyms_preserve_braces(text)
ProtectAcronyms ==
    /\ pc = "ready"
    /\ out' = protect_acronyms_preserve_braces(text)
    /\ pc' = "acronyms"
    /\ UNCHANGED <<raw, docs, step1, step2, step3, changed, calls, text, mlist, passed, counts>>

\* sentence_case_preserve_braces(text)
SentenceCase ==
    /\ pc = "ready"
    /\ out' = sentence_case_preserve_braces(text)
    /\ pc' = "cased"
    /\ UNCHANGED <<raw, docs, step1, step2, step3, changed, calls, text, mlist, passed, counts>>

NextPass == SplitBraces \/ ProtectAcronyms \/ SentenceCase

SpecPass == InitPass /\ [][NextPass]_vars

---------------------------------------------------------------------------
(* brace_entities alone, on any list of entities *)

\* the text the spans are taken over: "abcdefgh"
MergeText == [i \in 1..MergeLen |-> LowerSeq[i]]

MergeEntities == {Entity(ab[1], ab[2], "ORG") : ab \in SpansFrom(0, MergeLen)}

InitMerge ==
    /\ raw = <<>>
    /\ text = MergeText
    /\ \E d \in StringsUpTo(MergeEntities, MaxSpans) : docs = <<d>>
    /\ step1 = <<>>
    /\ step2 = <<>>
    /\ step3 = <<>>
    /\ changed = FALSE
    /\ calls = 0
    /\ pc = "ready"
    /\ out = <<>>
    /\ mlist = <<>>
    /\ passed = <<>>
    /\ counts = <<0, 0>>

\* brace_entities(nlp, text), nlp(text) being docs[1]
BraceEntities ==
    /\ pc = "ready"
    /\ out' = brace_entities(docs[1], text)
    /\ mlist' = MergeSpans(docs[1])
    /\ pc' = "braced"
    /\ UNCHANGED <<raw, docs, step1, step2, step3, changed, calls, text, passed, counts>>

NextMerge == BraceEntities

SpecMerge == InitMerge /\ [][NextMerge]_vars

---------------------------------------------------------------------------
(* process_title on the example title of the specification *)

\* "the LORD of the RINGS: a STORY"
LordTitle ==
    <<"t", "h", "e", " ", "L", "O", "R", "D", " ", "o", "f", " ", "t", "h", "e", " ", "R", "I", "N", "G", "S", ":", " ", "a", " ", "S", "T", "O", "R", "Y">>

\* the words of s from index i on, as spans [start, end)
RECURSIVE WordSpans(_, _)
WordSpans(s, i) ==
    IF i > Len(s) THEN <<>>
    ELSE IF WordRun(s, i) = 0 THEN WordSpans(s, i + 1)
    ELSE << <<i - 1, i - 1 + WordRun(s, i)>> >> \o WordSpans(s, i + WordRun(s, i))

\* a work-of-art label, recognised, and a label that is not
ExampleLabels == {"WORK_OF_ART", "DATE"}

\* the answers of a provider that reports some of the words, each with a label
RECURSIVE WordAnswers(_)
WordAnswers(words) ==
    IF words = <<>> THEN {<<>>}
    ELSE LET rest == WordAnswers(Tail(words))
         IN  rest \cup {<<Entity(Head(words)[1], Head(words)[2], l)>> \o r :
                            l \in ExampleLabels, r \in rest}

InitExample ==
    /\ raw = LordTitle
    /\ text = <<>>
    /\ Idle

\* step3, did_change = process_title(nlp, raw), nlp reporting words
ProcessExample ==
    /\ pc = "ready"
    /\ \E d \in WordAnswers(WordSpans(raw, 1)) :
          \E r \in {process_title(<<d>>, raw)} :
              /\ docs' = <<d>>
              /\ step1' = r[1]
              /\ step2' = r[2]
              /\ step3' = r[3]
              /\ changed' = r[4]
    /\ pc' = "done"
    /\ UNCHANGED <<raw, calls, text, out, mlist, passed, counts>>

NextExample == ProcessExample

SpecExample == InitExample /\ [][NextExample]_vars

---------------------------------------------------------------------------
(* clean_file *)

\* _TITLE_FIELD_RE at index i of s, group 1: "title" in any case, \s*, "=",
\* \s*, "{".  The index of that "{", or 0 when group 1 does not match at i.
TitlePrefixAt(s, i) ==
    LET k == i + 5 + SpaceRun(s, i + 5)
        m == k + 1 + SpaceRun(s, k + 1)
    IN  IF /\ i + 4 <= Len(s)
           /\ LowerStr(SubSeq(s, i, i + 4)) = <<"t", "i", "t", "l", "e">>
           /\ k <= Len(s) /\ s[k] = "="
           /\ m <= Len(s) /\ s[m] = "{"
        THEN m ELSE 0

\* _TITLE_FIELD_RE at index i of s, groups 2 and 3: (.*?)(\}) stops at the
\* first "}" after the "{".  The index of that "}", or 0 when there is no match.
TitleEndAt(s, i) ==
    IF TitlePrefixAt(s, i) = 0 THEN 0 ELSE Find(s, "}", TitlePrefixAt(s, i) + 1)

\* m.group(2) of every match of _TITLE_FIELD_RE in s, from index i on
RECURSIVE TitleContents(_, _)
TitleContents(s, i) ==
    IF i > Len(s) THEN <<>>
    ELSE IF TitleEndAt(s, i) = 0 THEN TitleContents(s, i + 1)
    ELSE <<SubSeq(s, TitlePrefixAt(s, i) + 1, TitleEndAt(s, i) - 1)>>
             \o TitleContents(s, TitleEndAt(s, i) + 1)

\* _TITLE_FIELD_RE.sub(replace, text) from index i on; cleaned[k] is what
\* process_title returned for the k-th match
RECURSIVE TitleSub(_, _, _)
TitleSub(s, i, cleaned) ==
    IF i > Len(s) THEN <<>>
    ELSE IF TitleEndAt(s, i) = 0 THEN <<s[i]>> \o TitleSub(s, i + 1, cleaned)
    ELSE SubSeq(s, i, TitlePrefixAt(s, i)) \o Head(cleaned)[3] \o <<"}">>
             \o TitleSub(s, TitleEndAt(s, i) + 1, Tail(cleaned))

\* the calls process_title(nlp, content) of replace, one per match
RECURSIVE CleanEach(_, _)
CleanEach(contents, dss) ==
    IF contents = <<>> THEN <<>>
    ELSE <<process_title(Head(dss), Head(contents))>>
             \o CleanEach(Tail(contents), Tail(dss))

\* the counter changed of clean_file
RECURSIVE CountChanged(_)
CountChanged(cleaned) ==
    IF cleaned = <<>> THEN 0
    ELSE (IF Head(cleaned)[4] THEN 1 ELSE 0) + CountChanged(Tail(cleaned))

\* the answers of nlp in the calls of clean_file: for each content, one
\* answer per part
RECURSIVE AnswersPerCall(_)
AnswersPerCall(contents) ==
    IF contents = <<>> THEN {<<>>}
    ELSE {<<ds>> \o rest :
              ds \in AnswersPerPart(split_braces(Head(contents)), MaxFileEnts),
              rest \in AnswersPerCall(Tail(contents))}

FieldNames == {<<"t", "i", "t", "l", "e">>, <<"T", "i", "t", "l", "e">>, <<"y", "e", "a", "r">>, <<"b", "o", "o", "k", "t", "i", "t", "l", "e">>}

FieldSeps == {<<"=">>, <<" ", "=", " ">>}

FieldValues == {<<>>, <<"A", "a">>, <<"a", "1">>, <<"a", " ", "{", "A", "A", "}", " ", "a">>}

\* name = {value},
Fields ==
    {n \o e \o <<"{">> \o v \o <<"}", ",">> :
         n \in FieldNames, e \in FieldSeps, v \in FieldValues}

RECURSIVE FieldLists(_)
FieldLists(n) ==
    IF n = 0 THEN {<<>>}
    ELSE FieldLists(n - 1) \cup
         {f \o rest : f \in Fields, rest \in FieldLists(n - 1)}

\* @a{k, fields }
Documents == {<<"@", "a", "{", "k", ",">> \o fs \o <<"}">> : fs \in FieldLists(MaxFields)}

InitFile ==
    /\ raw = <<>>
    /\ text \in Documents
    /\ Idle

\* total, changed = clean_file(nlp, INPUT, OUTPUT); out is the text written
CleanFile ==
    /\ pc = "ready"
    /\ \E dss \in AnswersPerCall(TitleContents(text, 1)) :
          \E cleaned \in {CleanEach(TitleContents(text, 1), dss)} :
              /\ docs' = dss
              /\ out' = TitleSub(text, 1, cleaned)
              /\ counts' = <<Len(cleaned), CountChanged(cleaned)>>
    /\ passed' = TitleContents(text, 1)
    /\ pc' = "cleaned"
    /\ UNCHANGED <<raw, step1, step2, step3, changed, calls, text, mlist>>

NextFile == CleanFile

SpecFile == InitFile /\ [][NextFile]_vars

---------------------------------------------------------------------------
(* What the properties are stated with *)

Braces == {"{", "}"}

\* the number of c in s
Count(s, c) == Cardinality({i \in 1..Len(s) : s[i] = c})

\* the number of "{" minus the number of "}" in the first i characters of s
DepthAt(s, i) ==
    Cardinality({k \in 1..i : s[k] = "{"}) - Cardinality({k \in 1..i : s[k] = "}"})

\* no marker inside another one
DepthAtMostOne(s) == \A i \in 1..Len(s) : DepthAt(s, i) <= 1

\* the braces of s are balanced and not nested
FlatBalanced(s) ==
    /\ \A i \in 1..Len(s) : DepthAt(s, i) \in {0, 1}
    /\ DepthAt(s, Len(s)) = 0

\* y is x with braces inserted and the case of letters changed, nothing else
RECURSIVE Embeds(_, _)
Embeds(x, y) ==
    IF y = <<>> THEN x = <<>>
    ELSE \/ /\ x # <<>>
            /\ lower(Head(x)) = lower(Head(y))
            /\ Embeds(Tail(x), Tail(y))
         \/ /\ Head(y) \in Braces
            /\ Embeds(x, Tail(y))

\* the protected spans of s: <<i, j>> with s[i] = "{" at depth 0 and s[j] the
\* "}" that closes it
ProtectedSpans(s) ==
    {ij \in (1..Len(s)) \X (1..Len(s)) :
        /\ ij[1] < ij[2]
        /\ s[ij[1]] = "{"
        /\ s[ij[2]] = "}"
        /\ DepthAt(s, ij[1]) = 1
        /\ DepthAt(s, ij[2]) = 0
        /\ \A k \in ij[1]..(ij[2] - 1) : DepthAt(s, k) >= 1
        /\ \A k \in 1..ij[1] : DepthAt(s, k) >= 0}

\* the span s[i..j] stands in y as it is, and the text before and after it is
\* the text before and after it in s, up to inserted braces and case
KeptVerbatim(s, i, j, y) ==
    \E k \in 1..Len(y) :
        /\ k + (j - i) <= Len(y)
        /\ SubSeq(y, k, k + (j - i)) = SubSeq(s, i, j)
        /\ Embeds(SubSeq(s, 1, i - 1), SubSeq(y, 1, k - 1))
        /\ Embeds(SubSeq(s, j + 1, Len(s)), SubSeq(y, k + (j - i) + 1, Len(y)))

\* the provider reported no entity with a recognised label
NoRecognized(ds) == \A i \in 1..Len(ds) : RecognizedSpans(ds[i]) = <<>>

\* index i of s lies in a braced part of split_braces(s)
RECURSIVE InBracedPart(_, _)
InBracedPart(parts, i) ==
    IF parts = <<>> THEN FALSE
    ELSE IF i <= Len(Head(parts)) THEN IsBraced(Head(parts))
    ELSE InBracedPart(Tail(parts), i - Len(Head(parts)))

Protected(s, i) == InBracedPart(split_braces(s), i)

\* s[i..j] is a whole word: a longest run of \w characters
IsWord(s, i, j) ==
    /\ i <= j
    /\ \A k \in i..j : s[k] \in WordChars
    /\ (i = 1 \/ s[i - 1] \notin WordChars)
    /\ (j = Len(s) \/ s[j + 1] \notin WordChars)

\* two or more upper-case letters/digits, or a digit somewhere
AcronymShaped(tok) ==
    \/ Len(tok) >= 2 /\ \A k \in 1..Len(tok) : tok[k] \in UpperChars \cup Digits
    \/ \E k \in 1..Len(tok) : tok[k] \in Digits

\* no acronym-shaped word outside the protected spans of s
NoAcronymWord(s) ==
    \A i \in 1..Len(s) : \A j \in i..Len(s) :
        (IsWord(s, i, j) /\ ~Protected(s, i)) => ~AcronymShaped(SubSeq(s, i, j))

\* s[i] follows a colon outside the protected spans and optional white space
AfterColon(s, i) ==
    \E j \in 1..(i - 1) :
        /\ s[j] = ":"
        /\ ~Protected(s, j)
        /\ \A k \in (j + 1)..(i - 1) : s[k] \in Whitespace

\* s[i] is the first letter of s
FirstLetter(s, i) == s[i] \in Letters /\ \A k \in 1..(i - 1) : s[k] \notin Letters

\* outside protected spans the upper-case letters are the first letter of the
\* title and the first letter after each colon, and no other
InSentenceCase(s) ==
    \A i \in 1..Len(s) :
        (s[i] \in Letters /\ ~Protected(s, i)) =>
            (s[i] \in UpperChars <=> (FirstLetter(s, i) \/ AfterColon(s, i)))

---------------------------------------------------------------------------
(* Properties of process_title, checked under Spec *)

\* C1: every protected span of the input, whatever is inside it (further
\* braces included), stands in the output of process_title with its text and
\* case unchanged and no marker inserted inside it.
C1_ProtectedSpansKept ==
    pc = "done" =>
        \A ij \in ProtectedSpans(raw) : KeptVerbatim(raw, ij[1], ij[2], step3)

\* C1 restricted to titles whose braces are balanced and not nested
C1_FlatSpansKept ==
    (pc = "done" /\ FlatBalanced(raw)) =>
        \A ij \in ProtectedSpans(raw) : KeptVerbatim(raw, ij[1], ij[2], step3)

\* C2: process_title is idempotent when detection is stable: cleaning a
\* returned title again, with no recognised entity found in it, returns the
\* same title and reports changed = FALSE.
C2_Idempotent ==
    (pc = "done" /\ calls = 1 /\ NoRecognized(docs)) =>
        (step3 = raw /\ changed = FALSE)

\* "1:a" became "{1}:A", and cleaning "{1}:A" again returned it unchanged
C2_Witness ==
    /\ pc = "done"
    /\ calls = 1
    /\ raw = <<"{", "1", "}", ":", "A">>
    /\ step3 = raw
    /\ changed = FALSE

\* C3: for a title whose braces are balanced and not nested, no pass puts a
\* marker inside another one: the brace depth of the result of every pass is
\* at most 1 at every position, also where the entity pass wrapped an
\* all-caps or digit-bearing span before the acronym pass ran.
C3_NoNestedMarkers ==
    (pc = "done" /\ FlatBalanced(raw)) =>
        (DepthAtMostOne(step1) /\ DepthAtMostOne(step2) /\ DepthAtMostOne(step3))

\* the entity pass wrapped "A1", all caps with a digit, and the acronym pass
\* left it alone
C3_Witness ==
    /\ pc = "done"
    /\ raw = <<"A", "1", "a">>
    /\ docs = << <<Entity(0, 2, "ORG")>> >>
    /\ step1 = <<"{", "A", "1", "}", "a">>
    /\ step2 = step1

\* C5: a title with no recognised entity, no acronym-shaped word outside
\* protected spans and already in sentence case is returned unchanged with
\* changed = FALSE, also when it begins with a protected span.
C5_NoOp ==
    (pc = "done" /\ NoRecognized(docs) /\ NoAcronymWord(raw) /\ InSentenceCase(raw)) =>
        (step3 = raw /\ changed = FALSE)

---------------------------------------------------------------------------
(* Properties of the single passes, checked under SpecPass *)

\* index i of s begins, or ends, a word outside the braced parts
BeginsWord(s, i) == ~Protected(s, i) /\ \E j \in i..Len(s) : IsWord(s, i, j)

EndsWord(s, j) == ~Protected(s, j) /\ \E i \in 1..j : IsWord(s, i, j)

\* the word of s that holds index i
WordAt(s, i) ==
    LET lo == CHOOSE a \in 1..i : \E b \in i..Len(s) : IsWord(s, a, b)
        hi == CHOOSE b \in i..Len(s) : IsWord(s, lo, b)
    IN  SubSeq(s, lo, hi)

\* s with a brace pair around each acronym-shaped word outside the braced
\* parts, and nothing else changed
RECURSIVE AcronymsWrapped(_, _)
AcronymsWrapped(s, i) ==
    IF i > Len(s) THEN <<>>
    ELSE (IF BeginsWord(s, i) /\ AcronymShaped(WordAt(s, i)) THEN <<"{">> ELSE <<>>)
         \o <<s[i]>>
         \o (IF EndsWord(s, i) /\ AcronymShaped(WordAt(s, i)) THEN <<"}">> ELSE <<>>)
         \o AcronymsWrapped(s, i + 1)

\* C8: protect_acronyms_preserve_braces wraps a word of an unprotected segment
\* in its own brace pair iff it is two or more upper-case letters/digits or
\* holds a digit, and changes nothing else: "NASA", "COVID19" and "2nd" are
\* wrapped one by one, "the" and "Of" are not.
C8_AcronymsWrapped ==
    pc = "acronyms" =>
        /\ out = AcronymsWrapped(text, 1)
        /\ text = AcronymText => out = <<"t", "h", "e", " ", "{", "N", "A", "S", "A", "}", " ", "{", "C", "O", "V", "I", "D", "1", "9", "}", " ", "{", "2", "n", "d", "}", " ", "O", "f">>

\* "the NASA COVID19 2nd Of" became "the {NASA} {COVID19} {2nd} Of"
C8_Witness ==
    /\ pc = "acronyms"
    /\ text = AcronymText
    /\ out = <<"t", "h", "e", " ", "{", "N", "A", "S", "A", "}", " ", "{", "C", "O", "V", "I", "D", "1", "9", "}", " ", "{", "2", "n", "d", "}", " ", "O", "f">>

\* index i of s is outside the braced parts and no letter outside them comes
\* before it: the place of the first-letter capital
FirstOpenLetter(s, i) ==
    /\ s[i] \in Letters
    /\ ~Protected(s, i)
    /\ \A k \in 1..(i - 1) : Protected(s, k) \/ s[k] \notin Letters

\* a digit stands before index i in the unprotected segment of i
DigitBefore(s, i) ==
    \E k \in 1..(i - 1) :
        s[k] \in Digits /\ \A m \in k..i : ~Protected(s, m)

\* s in sentence case, the first-letter capital being given at the indexes
\* that satisfy First
SentenceCased(s, First(_, _)) ==
    [i \in 1..Len(s) |->
        IF Protected(s, i) THEN s[i]
        ELSE IF First(s, i) \/ AfterColon(s, i) THEN upper(lower(s[i]))
        ELSE lower(s[i])]

FirstUnlessDigit(s, i) == FirstOpenLetter(s, i) /\ ~DigitBefore(s, i)

---------------------------------------------------------------------------
(* Property of process_title on the example title, checked under SpecExample *)

\* the provider reported "LORD", characters 4 to 8, and no other recognised span
OnlyLord == pc = "done" /\ RecognizedSpans(docs[1]) = << <<4, 8>> >>

\* C4 as claimed: with one recognised span, over "LORD", the acronym pass
\* protects no token of "the LORD of the RINGS: a STORY" and process_title
\* returns "The {LORD} of the rings: A story".
C4_ExampleAsClaimed ==
    OnlyLord =>
        /\ step2 = step1
        /\ step3 = <<"T", "h", "e", " ", "{", "L", "O", "R", "D", "}", " ", "o", "f", " ", "t", "h", "e", " ", "r", "i", "n", "g", "s", ":", " ", "A", " ", "s", "t", "o", "r", "y">>

\* C4 as amended: with one recognised span, over "LORD", the acronym pass
\* protects the all-caps tokens "RINGS" and "STORY" and process_title returns
\* "The {LORD} of the {RINGS}: A {STORY}": outside the protected spans
\* everything is lower-cased except the first letter "T" and the "A" after
\* the colon.
C4_ExampleAsCoded ==
    OnlyLord =>
        /\ step1 = <<"t", "h", "e", " ", "{", "L", "O", "R", "D", "}", " ", "o", "f", " ", "t", "h", "e", " ", "R", "I", "N", "G", "S", ":", " ", "a", " ", "S", "T", "O", "R", "Y">>
        /\ step2 = <<"t", "h", "e", " ", "{", "L", "O", "R", "D", "}", " ", "o", "f", " ", "t", "h", "e", " ", "{", "R", "I", "N", "G", "S", "}", ":", " ", "a", " ", "{", "S", "T", "O", "R", "Y", "}">>
        /\ step3 = <<"T", "h", "e", " ", "{", "L", "O", "R", "D", "}", " ", "o", "f", " ", "t", "h", "e", " ", "{", "R", "I", "N", "G", "S", "}", ":", " ", "A", " ", "{", "S", "T", "O", "R", "Y", "}">>
        /\ changed = TRUE

\* the provider reported "LORD" as a work of art and nothing else
C4_Witness ==
    /\ pc = "done"
    /\ docs = << <<Entity(4, 8, "WORK_OF_ART")>> >>
    /\ step3 = <<"T", "h", "e", " ", "{", "L", "O", "R", "D", "}", " ", "o", "f", " ", "t", "h", "e", " ", "{", "R", "I", "N", "G", "S", "}", ":", " ", "A", " ", "{", "S", "T", "O", "R", "Y", "}">>

---------------------------------------------------------------------------
(* Property of brace_entities, checked under SpecMerge *)

\* the characters (counted from 0) that the spans cover
Covered(spans) == UNION {spans[k][1]..(spans[k][2] - 1) : k \in 1..Len(spans)}

\* s with one brace pair around each longest run of covered characters
RECURSIVE CoverWrapped(_, _, _)
CoverWrapped(s, cover, i) ==
    IF i > Len(s) THEN <<>>
    ELSE (IF (i - 1) \in cover /\ (i - 2) \notin cover THEN <<"{">> ELSE <<>>)
         \o <<s[i]>>
         \o (IF (i - 1) \in cover /\ i \notin cover THEN <<"}">> ELSE <<>>)
         \o CoverWrapped(s, cover, i + 1)

\* C7: for any list of recognised spans, in any order, overlapping or not,
\* the merged list is sorted, its spans are disjoint and do not touch, and it
\* covers exactly the characters the spans cover: [0,3) and [3,5) give one
\* span, [0,3) and [5,8) give two; each merged span gets exactly one brace
\* pair and the text between the spans is unchanged.
C7_MergedAndWrapped ==
    pc = "braced" =>
        LET spans == RecognizedSpans(docs[1])
        IN  /\ \A k \in 1..Len(mlist) : mlist[k][1] < mlist[k][2]
            /\ \A k \in 1..(Len(mlist) - 1) : mlist[k][2] < mlist[k + 1][1]
            /\ Covered(mlist) = Covered(spans)
            /\ out = CoverWrapped(text, Covered(spans), 1)
            /\ Count(out, "{") = Len(mlist)
            /\ Count(out, "}") = Len(mlist)
            /\ (spans = << <<3, 5>>, <<0, 3>> >> \/ spans = << <<0, 3>>, <<3, 5>> >>) =>
                   /\ mlist = << <<0, 5>> >>
                   /\ out = <<"{">> \o SubSeq(text, 1, 5) \o <<"}">>
                                \o SubSeq(text, 6, Len(text))
            /\ (spans = << <<5, 8>>, <<0, 3>> >> \/ spans = << <<0, 3>>, <<5, 8>> >>) =>
                   /\ mlist = << <<0, 3>>, <<5, 8>> >>
                   /\ out = <<"{">> \o SubSeq(text, 1, 3) \o <<"}">>
                                \o SubSeq(text, 4, 5)
                                \o <<"{">> \o SubSeq(text, 6, 8) \o <<"}">>
                                \o SubSeq(text, 9, Len(text))

\* [3,5) and [0,3), reported out of order, were merged into [0,5)
C7_Witness ==
    /\ pc = "braced"
    /\ docs = << <<Entity(3, 5, "ORG"), Entity(0, 3, "ORG")>> >>
    /\ mlist = << <<0, 5>> >>
    /\ Count(out, "{") = 1

---------------------------------------------------------------------------
(* Property of clean_file, checked under SpecFile *)

\* the index of the "}" that closes the "{" at index m of s, or 0
BalancedEnd(s, m) ==
    LET bal(j) == Cardinality({k \in m..j : s[k] = "{"})
                      - Cardinality({k \in m..j : s[k] = "}"})
        ends == {j \in (m + 1)..Len(s) : bal(j) = 0}
    IN  IF ends = {} THEN 0 ELSE CHOOSE j \in ends : \A k \in ends : j <= k

\* the values of the title fields of s from index i on: all the text between
\* the brace that opens a value and the brace that closes it
RECURSIVE FullValues(_, _)
FullValues(s, i) ==
    IF i > Len(s) THEN <<>>
    ELSE IF TitlePrefixAt(s, i) = 0 \/ BalancedEnd(s, TitlePrefixAt(s, i)) = 0
         THEN FullValues(s, i + 1)
    ELSE <<SubSeq(s, TitlePrefixAt(s, i) + 1, BalancedEnd(s, TitlePrefixAt(s, i)) - 1)>>
             \o FullValues(s, BalancedEnd(s, TitlePrefixAt(s, i)) + 1)

\* y is s from index i on, each value of a title field replaced by that value
\* with braces inserted and case changed, every other character the same
RECURSIVE ValuesReplaced(_, _, _)
ValuesReplaced(s, i, y) ==
    IF i > Len(s) THEN y = <<>>
    ELSE IF TitlePrefixAt(s, i) = 0 \/ BalancedEnd(s, TitlePrefixAt(s, i)) = 0
         THEN y # <<>> /\ Head(y) = s[i] /\ ValuesReplaced(s, i + 1, Tail(y))
    ELSE LET m == TitlePrefixAt(s, i)
             e == BalancedEnd(s, m)
             n == m - i + 1
         IN  /\ Len(y) >= n
             /\ SubSeq(y, 1, n) = SubSeq(s, i, m)
             /\ \E z \in n..(Len(y) - 1) :
                    /\ Embeds(SubSeq(s, m + 1, e - 1), SubSeq(y, n + 1, z))
                    /\ y[z + 1] = "}"
                    /\ ValuesReplaced(s, e + 1, SubSeq(y, z + 2, Len(y)))

\* C6: clean_file hands process_title the full value of each title field
\* (protected spans inside it included), writes the transformed value back in
\* its place and leaves every character outside the values as it was.
C6_FullValuesCleaned ==
    pc = "cleaned" =>
        /\ passed = FullValues(text, 1)
        /\ ValuesReplaced(text, 1, out)

\* C6 restricted to documents whose title values hold no brace
C6_BraceFreeValuesCleaned ==
    (pc = "cleaned" /\ \A k \in 1..Len(FullValues(text, 1)) :
                           \A c \in 1..Len(FullValues(text, 1)[k]) :
                               FullValues(text, 1)[k][c] \notin Braces) =>
        /\ passed = FullValues(text, 1)
        /\ ValuesReplaced(text, 1, out)

====
